---- MODULE Spec2Model ----
(***************************************************************************)
(* Model of src/src/detector/vehicle/mask_rcnn/mrcnn.py (class MaskRCNN):  *)
(* construction (build's image-size check), detect, mold_inputs,           *)
(* get_anchors with its per-instance anchor cache, and unmold_detections.  *)
(*                                                                         *)
(* Arrays are sequences (1-based; row i of the model is row i-1 of the     *)
(* code).  Floating point values that the code only divides, multiplies    *)
(* and compares are exact rationals <<numerator, denominator>>.            *)
(***************************************************************************)
EXTENDS Integers, Sequences, FiniteSets, TLC

(***************************************************************************)
(* Bounds of the model.                                                    *)
(***************************************************************************)
\* detect calls made on one detector instance
MaxCalls == 2
\* longest image list handed to detect
MaxImages == 2
\* callers that run get_anchors on one instance at the same time
MaxCallers == 2
\* most rows of a detections array handed to unmold_detections
MaxRows == 3

(***************************************************************************)
(* Exact rationals.                                                        *)
(***************************************************************************)
Abs(a) == IF a < 0 THEN -a ELSE a

RECURSIVE Gcd(_, _)
Gcd(a, b) == IF b = 0 THEN a ELSE Gcd(b, a % b)

\* the rational n/d (d # 0) in lowest terms with a positive denominator
Rat(n, d) ==
    LET g == Gcd(Abs(n), Abs(d))
        s == IF d < 0 THEN -1 ELSE 1
    IN  << (s * n) \div g, (s * d) \div g >>

RatOfInt(i) == << i, 1 >>
RatSub(p, q) == Rat(p[1] * q[2] - q[1] * p[2], p[2] * q[2])
RatMul(p, q) == Rat(p[1] * q[1], p[2] * q[2])
RatDiv(p, q) == Rat(p[1] * q[2], p[2] * q[1])
\* p <= 0
RatNonPositive(p) == p[1] <= 0
RatPositive(p) == p[1] > 0

(***************************************************************************)
(* utils.norm_boxes / utils.denorm_boxes / utils.unmold_mask: their code   *)
(* is not part of the sources at hand; modelled from the description       *)
(* "normalized = (pixel - 0) / (dim - 1) per axis pair; denormalize is the *)
(* exact inverse" and "resizes the mask to the pixel extent of box and     *)
(* writes it into a zero array of original_shape".                         *)
(***************************************************************************)
\* box: four rationals (y1, x1, y2, x2) in pixels; shape: <<h, w>>
norm_boxes(box, shape) ==
    LET h == RatOfInt(shape[1] - 1)
        w == RatOfInt(shape[2] - 1)
    IN  << RatDiv(box[1], h), RatDiv(box[2], w),
           RatDiv(box[3], h), RatDiv(box[4], w) >>

denorm_boxes(box, shape) ==
    LET h == RatOfInt(shape[1] - 1)
        w == RatOfInt(shape[2] - 1)
    IN  << RatMul(box[1], h), RatMul(box[2], w),
           RatMul(box[3], h), RatMul(box[4], w) >>

\* the full-size instance mask: the small mask placed at box on a canvas of
\* the original image's height and width
unmold_mask(mask, box, original_image_shape) ==
    [mask |-> mask, box |-> box,
     shape |-> << original_image_shape[1], original_image_shape[2] >>]

(***************************************************************************)
(* Input domains.                                                          *)
(***************************************************************************)
\* class_id 0 is background / padding
ClassIds == 0 .. 2
\* original image shapes (H, W, C)
OrigShapes == { <<3, 5, 3>>, <<5, 5, 3>> }
\* what resizing an image yields: the molded shape and the window in it
Moldings ==
    { [molded |-> <<64, 64, 3>>,  window |-> <<0, 0, 64, 64>>],
      [molded |-> <<64, 64, 3>>,  window |-> <<16, 0, 48, 64>>],
      [molded |-> <<64, 128, 3>>, window |-> <<0, 0, 64, 128>>] }
MoldedShapes == { m.molded : m \in Moldings }
\* an image: its shape and, for the instance's configuration, the outcome
\* of resize_image on it
Images == [shape : OrigShapes, molding : Moldings]

\* normalized boxes (y1, x1, y2, x2): a proper one, one of zero height,
\* one of negative height, one with both extents negative
ProperBox == << <<1, 4>>, <<1, 4>>, <<1, 1>>, <<1, 1>> >>
FlatBox == << <<1, 2>>, <<0, 1>>, <<1, 2>>, <<1, 1>> >>
Boxes ==
    { ProperBox, FlatBox,
      << <<1, 2>>, <<0, 1>>, <<1, 4>>, <<1, 1>> >>,
      << <<1, 1>>, <<1, 1>>, <<0, 1>>, <<0, 1>> >> }

\* a detections row (y1, x1, y2, x2, class_id, score)
Row(box, c, s) == << box[1], box[2], box[3], box[4], c, s >>
\* the all-zero row the detections are padded with
PaddingRow == Row(<< <<0, 1>>, <<0, 1>>, <<0, 1>>, <<0, 1>> >>, 0, 0)
\* rows: every box with every class, the proper box also with a second
\* score, and the padding row
Rows ==
    { Row(b, c, 50) : b \in Boxes, c \in ClassIds }
        \cup { Row(ProperBox, c, 90) : c \in ClassIds \ {0} }
        \cup { PaddingRow }

SeqsUpTo(S, n) == UNION { [1 .. k -> S] : k \in 0 .. n }

\* the raw mask of row r, class channel c, of image b of the batch: every
\* position of mrcnn_mask holds a different small mask
RawMask(b, r, c) == << "mask", b, r, c >>
\* mrcnn_mask[b] for n rows: [n, h, w, num_classes]
RawMasks(b, n) == [r \in 1 .. n |-> [c \in ClassIds |-> RawMask(b, r, c)]]

(***************************************************************************)
(* MaskRCNN.unmold_detections                                              *)
(***************************************************************************)
Min(S) == CHOOSE x \in S : \A y \in S : x <= y

\* np.where(detections[:, 4] == 0)[0]: the rows whose class_id is 0
zero_ix(detections) == { i \in 1 .. Len(detections) : detections[i][5] = 0 }

\* mutant: N counts the rows whose class_id is not 0
valid_count_nonzero(detections) ==
    Len(detections) - Cardinality(zero_ix(detections))

\* N: the rows before the first class_id == 0, all rows when there is none
valid_count(detections) ==
    IF zero_ix(detections) # {} THEN Min(zero_ix(detections)) - 1
    ELSE Len(detections)

\* mrcnn_mask[np.arange(N), :, :, class_ids]
select_masks(mrcnn_mask, N, class_ids) ==
    [i \in 1 .. N |-> mrcnn_mask[i][class_ids[i]]]

\* boxes normalized in the molded image -> pixels of the original image
translate_box(box, original_image_shape, image_shape, window) ==
    LET win == norm_boxes(<< RatOfInt(window[1]), RatOfInt(window[2]),
                             RatOfInt(window[3]), RatOfInt(window[4]) >>,
                          << image_shape[1], image_shape[2] >>)
        wy1 == win[1]
        wx1 == win[2]
        wy2 == win[3]
        wx2 == win[4]
        wh == RatSub(wy2, wy1)
        ww == RatSub(wx2, wx1)
        onwin == << RatDiv(RatSub(box[1], wy1), wh),
                    RatDiv(RatSub(box[2], wx1), ww),
                    RatDiv(RatSub(box[3], wy1), wh),
                    RatDiv(RatSub(box[4], wx1), ww) >>
    IN  denorm_boxes(onwin,
                     << original_image_shape[1], original_image_shape[2] >>)

\* (y2 - y1) * (x2 - x1)
box_area(box) == RatMul(RatSub(box[3], box[1]), RatSub(box[4], box[2]))

\* mutant: < 0 in place of <= 0
exclude_ix_strict(boxes) ==
    { i \in 1 .. Len(boxes) : ~RatPositive(box_area(boxes[i]))
                                 /\ box_area(boxes[i])[1] # 0 }

\* np.where((boxes[:, 2] - boxes[:, 0]) * (boxes[:, 3] - boxes[:, 1]) <= 0)[0]
exclude_ix(boxes) ==
    { i \in 1 .. Len(boxes) : RatNonPositive(box_area(boxes[i])) }

\* np.delete(arr, ix, axis=0)
RECURSIVE np_delete_from(_, _, _)
np_delete_from(arr, ix, i) ==
    IF i > Len(arr) THEN << >>
    ELSE (IF i \in ix THEN << >> ELSE << arr[i] >>)
             \o np_delete_from(arr, ix, i + 1)

np_delete(arr, ix) == np_delete_from(arr, ix, 1)

\* mutant: the masks are left as they are
delete_masks_skipped(masks, ix) == masks

\* line 283: masks = np.delete(masks, exclude_ix, axis=0)
delete_masks(masks, ix) == np_delete(masks, ix)

\* mutant: the empty stack is np.empty(shape[:2])
stack_full_masks_flat(full_masks, original_image_shape) ==
    IF full_masks # << >>
    THEN [shape |-> full_masks[1].shape \o << Len(full_masks) >>,
          layers |-> full_masks]
    ELSE [shape |-> << original_image_shape[1], original_image_shape[2] >>,
          layers |-> << >>]

\* np.stack(full_masks, axis=-1) if full_masks else np.empty(shape[:2] + (0,))
stack_full_masks(full_masks, original_image_shape) ==
    IF full_masks # << >>
    THEN [shape |-> full_masks[1].shape \o << Len(full_masks) >>,
          layers |-> full_masks]
    ELSE [shape |-> << original_image_shape[1], original_image_shape[2], 0 >>,
          layers |-> << >>]

unmold_detections(detections, mrcnn_mask, original_image_shape, image_shape, window) ==
    LET N0 == valid_count(detections)
        boxes0 == [i \in 1 .. N0 |->
                      << detections[i][1], detections[i][2],
                         detections[i][3], detections[i][4] >>]
        class_ids0 == [i \in 1 .. N0 |-> detections[i][5]]
        scores0 == [i \in 1 .. N0 |-> detections[i][6]]
        masks0 == select_masks(mrcnn_mask, N0, class_ids0)
        boxes1 == [i \in 1 .. N0 |->
                      translate_box(boxes0[i], original_image_shape,
                                    image_shape, window)]
        ex == exclude_ix(boxes1)
        del == ex # {}
        boxes == IF del THEN np_delete(boxes1, ex) ELSE boxes1
        class_ids == IF del THEN np_delete(class_ids0, ex) ELSE class_ids0
        scores == IF del THEN np_delete(scores0, ex) ELSE scores0
        masks == IF del THEN delete_masks(masks0, ex) ELSE masks0
        N == IF del THEN Len(class_ids) ELSE N0
        full_masks == [i \in 1 .. N |->
                          unmold_mask(masks[i], boxes[i], original_image_shape)]
    IN  [boxes |-> boxes, class_ids |-> class_ids, scores |-> scores,
         masks |-> stack_full_masks(full_masks, original_image_shape)]

(***************************************************************************)
(* State.                                                                  *)
(***************************************************************************)
VARIABLES
    config,           \* self.config: IMAGE_SHAPE (h, w) and BATCH_SIZE
    keras_model,      \* self.keras_model, NoModel until build returns
    pc,               \* where the caller of the instance is
    calls,            \* public calls made on the instance so far
    error,            \* the exception the running call raised, or NoError
    images,           \* detect's argument
    molded_images,    \* detect's locals, NoValue until assigned
    windows,
    anchors,
    detections,
    mrcnn_mask,
    i,                \* index of the result loop (line 333), 1-based
    results,
    returned,         \* << the value the running call returned >>, or << >>
    predict_calls,    \* keras_model.predict invocations of the running call
    anchor_calls,     \* get_anchors invocations of the running call
    anchor_cache,     \* self._anchor_cache: whether the attribute exists
                      \*   and the dictionary shape -> anchors it holds
    self_anchors,     \* self.anchors
    generated,        \* generate_pyramid_anchors runs, per image shape
    requested,        \* get_anchors calls made so far, per image shape
    u_args,           \* a direct unmold_detections call: << arguments >>
    u_ret,            \*   and << its return value >>, << >> before it
    useLock,          \* concurrent callers: whether they share a mutex
    lock,             \* the mutex's holder, 0 when free
    t_pc,             \* per concurrent caller: position in get_anchors
    t_shape,          \*   its image_shape argument
    t_a,              \*   its local a
    t_ret             \*   what its call returned

detect_vars == << pc, calls, error, images, molded_images, windows, anchors,
                  detections, mrcnn_mask, i, results, returned,
                  predict_calls, anchor_calls >>
cache_vars == << anchor_cache, self_anchors, generated, requested >>
unmold_vars == << u_args, u_ret >>
thread_vars == << useLock, lock, t_pc, t_shape, t_a, t_ret >>
vars == << config, keras_model, detect_vars, cache_vars, unmold_vars,
           thread_vars >>

NoValue == "None"
NoModel == "no keras_model"
NoError == "no error"

\* the exceptions of the code
InvalidConfiguration ==
    "Exception: Image size must be dividable by 2 at least 6 times"
BatchSizeMismatch ==
    "AssertionError: len(images) must be equal to BATCH_SIZE"
InconsistentImageShape ==
    "AssertionError: After resizing, all images must have the same size"
StackShapeError ==
    "ValueError: all input arrays must have the same shape"
KeyError == "KeyError"

\* configurations: IMAGE_SHAPE[:2] and BATCH_SIZE
ImageDims == {64, 96, 100, 128}
BatchSizes == {1, 2}
Configs == [IMAGE_SHAPE : ImageDims \X ImageDims, BATCH_SIZE : BatchSizes]

(***************************************************************************)
(* MaskRCNN.__init__ / MaskRCNN.build                                      *)
(***************************************************************************)
\* d / 2 ** 6 != int(d / 2 ** 6)
not_dividable(d) == d # (d \div 64) * 64

\* mutant: only the height is checked
bad_image_height(cfg) == not_dividable(cfg.IMAGE_SHAPE[1])

\* the condition of line 50
bad_image_size(cfg) ==
    \/ not_dividable(cfg.IMAGE_SHAPE[1])
    \/ not_dividable(cfg.IMAGE_SHAPE[2])

\* MaskRCNN(config): build raises, or the Keras model is built and kept
Construct ==
    /\ pc = "new"
    /\ IF bad_image_size(config)
       THEN /\ pc' = "failed"
            /\ error' = InvalidConfiguration
            /\ UNCHANGED keras_model
       ELSE /\ pc' = "idle"
            /\ keras_model' = "mask_rcnn"
            /\ UNCHANGED error
    /\ UNCHANGED << config, calls, images, molded_images, windows, anchors,
                    detections, mrcnn_mask, i, results, returned,
                    predict_calls, anchor_calls >>
    /\ UNCHANGED << cache_vars, unmold_vars, thread_vars >>

(***************************************************************************)
(* MaskRCNN.get_anchors                                                    *)
(***************************************************************************)
EmptyDict == [s \in {} |-> NoValue]

\* the dictionary with d[k] = v added or replaced
\* before the first get_anchors call the instance has no _anchor_cache
NoAttr == [has |-> FALSE, dict |-> EmptyDict]
\* self._anchor_cache = d
Attr(d) == [has |-> TRUE, dict |-> d]

DictSet(d, k, v) == [s \in DOMAIN d \cup {k} |-> IF s = k THEN v ELSE d[s]]

\* mutant: the lookup never finds the shape
cache_hit_never(cache, image_shape) == FALSE

\* tuple(image_shape) in self._anchor_cache
cache_hit(cache, image_shape) == image_shape \in DOMAIN cache

\* the array generate_pyramid_anchors returns on its n-th run for a shape:
\* a new object each time
pyramid_anchors(image_shape, n) ==
    [anchors |-> "pixel", of |-> image_shape, run |-> n]

\* norm_boxes(a, image_shape[:2]) on the anchor array: a new array
norm_anchors(a) == [anchors |-> "normalized", of |-> a.of, run |-> a.run]

\* the whole method, run without interruption; its return value is
\* anchor_cache'.dict[image_shape]
get_anchors(image_shape) ==
    LET cache == IF ~anchor_cache.has THEN EmptyDict ELSE anchor_cache.dict
    IN  /\ requested' = [requested EXCEPT ![image_shape] = @ + 1]
        /\ IF ~cache_hit(cache, image_shape)
           THEN LET a == pyramid_anchors(image_shape,
                                         generated[image_shape] + 1)
                IN  /\ generated' =
                           [generated EXCEPT ![image_shape] = @ + 1]
                    /\ self_anchors' = a
                    /\ anchor_cache' =
                           Attr(DictSet(cache, image_shape, norm_anchors(a)))
           ELSE /\ anchor_cache' = Attr(cache)
                /\ UNCHANGED << generated, self_anchors >>

\* a caller asks the instance for the anchors of a shape
GetAnchorsCall(image_shape) ==
    /\ pc = "idle"
    /\ calls < MaxCalls
    /\ calls' = calls + 1
    /\ get_anchors(image_shape)
    /\ returned' = << anchor_cache'.dict[image_shape] >>
    /\ anchor_calls' = anchor_calls + 1
    /\ pc' = "anchors_returned"
    /\ UNCHANGED << config, keras_model, error, images, molded_images,
                    windows, anchors, detections, mrcnn_mask, i, results,
                    predict_calls >>
    /\ UNCHANGED << unmold_vars, thread_vars >>

(***************************************************************************)
(* MaskRCNN.detect                                                         *)
(***************************************************************************)
\* mutant: at least BATCH_SIZE images are accepted
batch_size_at_least(imgs, cfg) == Len(imgs) >= cfg.BATCH_SIZE

\* the condition asserted at line 308
batch_size_ok(imgs, cfg) == Len(imgs) = cfg.BATCH_SIZE

\* detect(images) is entered; its first statement is the assertion
Detect(imgs) ==
    /\ pc = "idle"
    /\ calls < MaxCalls
    /\ calls' = calls + 1
    /\ images' = imgs
    /\ IF batch_size_ok(imgs, config)
       THEN pc' = "mold_inputs" /\ UNCHANGED error
       ELSE pc' = "raised" /\ error' = BatchSizeMismatch
    /\ UNCHANGED << config, keras_model, molded_images, windows, anchors,
                    detections, mrcnn_mask, i, results, returned,
                    predict_calls, anchor_calls >>
    /\ UNCHANGED << cache_vars, unmold_vars, thread_vars >>

\* resize_image(image, ...) and mold_image: the molded image (its shape)
\* and the window
resize_image(image) == << image.molding.molded, image.molding.window >>

\* np.stack(arrays) raises unless all arrays have the same shape
stackable(shapes) == \A k \in 1 .. Len(shapes) : shapes[k] = shapes[1]

\* line 313: mold_inputs(images), its np.stack calls included
MoldInputs ==
    /\ pc = "mold_inputs"
    /\ LET molded == [k \in 1 .. Len(images) |-> resize_image(images[k])[1]]
           wins == [k \in 1 .. Len(images) |-> resize_image(images[k])[2]]
       IN  IF stackable(molded)
           THEN /\ molded_images' = molded
                /\ windows' = wins
                /\ pc' = "validate"
                /\ UNCHANGED error
           ELSE /\ pc' = "raised"
                /\ error' = StackShapeError
                /\ UNCHANGED << molded_images, windows >>
    /\ UNCHANGED << config, keras_model, calls, images, anchors, detections,
                    mrcnn_mask, i, results, returned, predict_calls,
                    anchor_calls >>
    /\ UNCHANGED << cache_vars, unmold_vars, thread_vars >>

\* lines 317-320: every molded image has the shape of the first.  The
\* images were stacked into one array at line 224, so this holds whenever
\* the statement is reached (C2_FailsBeforePredictor).
same_shapes(molded) == \A k \in 2 .. Len(molded) : molded[k] = molded[1]

ValidateShapes ==
    /\ pc = "validate"
    /\ IF same_shapes(molded_images)
       THEN pc' = "get_anchors" /\ UNCHANGED error
       ELSE pc' = "raised" /\ error' = InconsistentImageShape
    /\ UNCHANGED << config, keras_model, calls, images, molded_images,
                    windows, anchors, detections, mrcnn_mask, i, results,
                    returned, predict_calls, anchor_calls >>
    /\ UNCHANGED << cache_vars, unmold_vars, thread_vars >>

\* lines 323-326: the anchors of the batch's shape, one copy per image
DetectAnchors ==
    /\ pc = "get_anchors"
    /\ get_anchors(molded_images[1])
    /\ anchor_calls' = anchor_calls + 1
    /\ anchors' = [k \in 1 .. config.BATCH_SIZE |->
                      anchor_cache'.dict[molded_images[1]]]
    /\ pc' = "predict"
    /\ UNCHANGED << config, keras_model, calls, error, images,
                    molded_images, windows, detections, mrcnn_mask, i,
                    results, returned, predict_calls >>
    /\ UNCHANGED << unmold_vars, thread_vars >>

\* the rows the predictor's detections are made of here: the all-zero
\* padding row, a proper detection and one of zero height
GoodRow == Row(ProperBox, 1, 90)
FlatRow == Row(FlatBox, 2, 50)
\* detections[b] of the predictor: DETECTION_MAX_INSTANCES rows, zero padded
DetectionSlices ==
    { << PaddingRow, PaddingRow >>, << GoodRow, PaddingRow >>,
      << FlatRow, GoodRow >>, << PaddingRow, GoodRow >> }

\* lines 329-330: keras_model.predict, once for the whole batch
Predict ==
    /\ pc = "predict"
    /\ keras_model # NoModel
    /\ \E dets \in [1 .. Len(molded_images) -> DetectionSlices] :
          /\ detections' = dets
          /\ mrcnn_mask' = [b \in 1 .. Len(molded_images) |->
                               RawMasks(b, Len(dets[b]))]
    /\ predict_calls' = predict_calls + 1
    /\ results' = << >>
    /\ i' = 1
    /\ pc' = "unmold"
    /\ UNCHANGED << config, keras_model, calls, error, images,
                    molded_images, windows, anchors, returned,
                    anchor_calls >>
    /\ UNCHANGED << cache_vars, unmold_vars, thread_vars >>

\* mutant: the window of the first image is used for every image
unmold_args_first_window(k) ==
    << detections[k], mrcnn_mask[k], images[k].shape, molded_images[k],
       windows[1] >>

\* lines 335-339: the arguments of the k-th unmold_detections call
unmold_args(k) ==
    << detections[k], mrcnn_mask[k], images[k].shape, molded_images[k],
       windows[k] >>

\* lines 333-347: one round of the loop over the images
UnmoldNext ==
    /\ pc = "unmold"
    /\ i <= Len(images)
    /\ LET args == unmold_args(i)
           r == unmold_detections(args[1], args[2], args[3], args[4],
                                  args[5])
       IN  results' = Append(results,
                             [rois |-> r.boxes, class_ids |-> r.class_ids,
                              scores |-> r.scores, masks |-> r.masks])
    /\ i' = i + 1
    /\ UNCHANGED << config, keras_model, pc, calls, error, images,
                    molded_images, windows, anchors, detections, mrcnn_mask,
                    returned, predict_calls, anchor_calls >>
    /\ UNCHANGED << cache_vars, unmold_vars, thread_vars >>

\* line 348
Return ==
    /\ pc = "unmold"
    /\ i > Len(images)
    /\ returned' = << results >>
    /\ pc' = "returned"
    /\ UNCHANGED << config, keras_model, calls, error, images,
                    molded_images, windows, anchors, detections, mrcnn_mask,
                    i, results, predict_calls, anchor_calls >>
    /\ UNCHANGED << cache_vars, unmold_vars, thread_vars >>

\* the call is over (it returned or raised); its locals are gone
Finish ==
    /\ pc \in {"returned", "anchors_returned", "raised"}
    /\ pc' = "idle"
    /\ error' = NoError
    /\ images' = NoValue
    /\ molded_images' = NoValue
    /\ windows' = NoValue
    /\ anchors' = NoValue
    /\ detections' = NoValue
    /\ mrcnn_mask' = NoValue
    /\ i' = 0
    /\ results' = NoValue
    /\ returned' = << >>
    /\ predict_calls' = 0
    /\ anchor_calls' = 0
    /\ UNCHANGED << config, keras_model, calls >>
    /\ UNCHANGED << cache_vars, unmold_vars, thread_vars >>

IdleThreads ==
    /\ useLock = FALSE
    /\ lock = 0
    /\ t_pc = << >>
    /\ t_shape = << >>
    /\ t_a = << >>
    /\ t_ret = << >>

NoUnmoldCall == u_args = << >> /\ u_ret = << >>

NoDetectCall ==
    /\ calls = 0
    /\ error = NoError
    /\ images = NoValue
    /\ molded_images = NoValue
    /\ windows = NoValue
    /\ anchors = NoValue
    /\ detections = NoValue
    /\ mrcnn_mask = NoValue
    /\ i = 0
    /\ results = NoValue
    /\ returned = << >>
    /\ predict_calls = 0
    /\ anchor_calls = 0

FreshCache ==
    /\ anchor_cache = NoAttr
    /\ self_anchors = NoValue
    /\ generated = [s \in MoldedShapes |-> 0]
    /\ requested = [s \in MoldedShapes |-> 0]

\* a configuration is chosen and MaskRCNN(config) is about to run
Init ==
    /\ config \in Configs
    /\ keras_model = NoModel
    /\ pc = "new"
    /\ NoDetectCall
    /\ FreshCache
    /\ NoUnmoldCall
    /\ IdleThreads

Next ==
    \/ Construct
    \/ \E imgs \in SeqsUpTo(Images, MaxImages) : Detect(imgs)
    \/ MoldInputs
    \/ ValidateShapes
    \/ DetectAnchors
    \/ Predict
    \/ UnmoldNext
    \/ Return
    \/ \E s \in MoldedShapes : GetAnchorsCall(s)
    \/ Finish

Spec == Init /\ [][Next]_vars

(***************************************************************************)
(* unmold_detections called on its own, on every input of the domain.      *)
(***************************************************************************)
\* an original image shape with what resizing such an image yields
UnmoldGeometries ==
    { [original_image_shape |-> <<3, 5, 3>>,
       molding |-> [molded |-> <<64, 64, 3>>, window |-> <<16, 0, 48, 64>>]],
      [original_image_shape |-> <<5, 5, 3>>,
       molding |-> [molded |-> <<64, 128, 3>>, window |-> <<0, 0, 64, 128>>]] }

UnmoldInputs ==
    { [detections |-> d, original_image_shape |-> g.original_image_shape,
       molding |-> g.molding] :
          d \in SeqsUpTo(Rows, MaxRows), g \in UnmoldGeometries }

UnmoldCall ==
    /\ u_args # << >>
    /\ u_ret = << >>
    /\ LET a == u_args[1]
       IN  u_ret' = << unmold_detections(a.detections,
                                         RawMasks(1, Len(a.detections)),
                                         a.original_image_shape,
                                         a.molding.molded,
                                         a.molding.window) >>
    /\ UNCHANGED << config, keras_model, detect_vars, cache_vars, u_args,
                    thread_vars >>

BuiltInstance ==
    /\ config = [IMAGE_SHAPE |-> <<64, 64>>, BATCH_SIZE |-> 1]
    /\ keras_model = "mask_rcnn"
    /\ pc = "idle"

InitUnmold ==
    /\ BuiltInstance
    /\ NoDetectCall
    /\ FreshCache
    /\ \E a \in UnmoldInputs : u_args = << a >>
    /\ u_ret = << >>
    /\ IdleThreads

NextUnmold == UnmoldCall

SpecUnmold == InitUnmold /\ [][NextUnmold]_vars

(***************************************************************************)
(* get_anchors run by several callers of one instance at the same time,    *)
(* statement by statement; with useLock each call is a critical section.   *)
(***************************************************************************)
Callers == 1 .. MaxCallers

\* the callers' mutex, taken before and released after the call
acquire(t) == IF useLock THEN lock = 0 /\ lock' = t ELSE UNCHANGED lock
release(t) == IF useLock THEN lock' = 0 ELSE UNCHANGED lock

Goto(t, label) == t_pc' = [t_pc EXCEPT ![t] = label]

\* get_anchors(image_shape) is called (line 352 computes backbone_shapes)
Enter(t, image_shape) ==
    /\ t_pc[t] = "start"
    /\ acquire(t)
    /\ t_shape' = [t_shape EXCEPT ![t] = image_shape]
    /\ requested' = [requested EXCEPT ![image_shape] = @ + 1]
    /\ Goto(t, "l354")
    /\ UNCHANGED << config, keras_model, detect_vars, anchor_cache,
                    self_anchors, generated, unmold_vars, useLock, t_a,
                    t_ret >>

\* line 354: if not hasattr(self, "_anchor_cache")
CheckAttr(t) ==
    /\ t_pc[t] = "l354"
    /\ Goto(t, IF ~anchor_cache.has THEN "l355" ELSE "l356")
    /\ UNCHANGED << config, keras_model, detect_vars, cache_vars,
                    unmold_vars, useLock, lock, t_shape, t_a, t_ret >>

\* line 355: self._anchor_cache = {}
InitCache(t) ==
    /\ t_pc[t] = "l355"
    /\ anchor_cache' = Attr(EmptyDict)
    /\ Goto(t, "l356")
    /\ UNCHANGED << config, keras_model, detect_vars, self_anchors,
                    generated, requested, unmold_vars, useLock, lock,
                    t_shape, t_a, t_ret >>

\* line 356: if not tuple(image_shape) in self._anchor_cache
CheckCache(t) ==
    /\ t_pc[t] = "l356"
    /\ Goto(t, IF ~cache_hit(anchor_cache.dict, t_shape[t])
               THEN "l358" ELSE "l370")
    /\ UNCHANGED << config, keras_model, detect_vars, cache_vars,
                    unmold_vars, useLock, lock, t_shape, t_a, t_ret >>

\* lines 358-364: a = generate_pyramid_anchors(...)
Generate(t) ==
    /\ t_pc[t] = "l358"
    /\ t_a' = [t_a EXCEPT ![t] =
                  pyramid_anchors(t_shape[t], generated[t_shape[t]] + 1)]
    /\ generated' = [generated EXCEPT ![t_shape[t]] = @ + 1]
    /\ Goto(t, "l367")
    /\ UNCHANGED << config, keras_model, detect_vars, anchor_cache,
                    self_anchors, requested, unmold_vars, useLock, lock,
                    t_shape, t_ret >>

\* line 367: self.anchors = a
KeepPixelAnchors(t) ==
    /\ t_pc[t] = "l367"
    /\ self_anchors' = t_a[t]
    /\ Goto(t, "l369")
    /\ UNCHANGED << config, keras_model, detect_vars, anchor_cache,
                    generated, requested, unmold_vars, useLock, lock,
                    t_shape, t_a, t_ret >>

\* line 369: self._anchor_cache[tuple(image_shape)] = norm_boxes(a, ...)
Store(t) ==
    /\ t_pc[t] = "l369"
    /\ anchor_cache' = Attr(DictSet(anchor_cache.dict, t_shape[t],
                                    norm_anchors(t_a[t])))
    /\ Goto(t, "l370")
    /\ UNCHANGED << config, keras_model, detect_vars, self_anchors,
                    generated, requested, unmold_vars, useLock, lock,
                    t_shape, t_a, t_ret >>

\* line 370: return self._anchor_cache[tuple(image_shape)]
ReturnAnchors(t) ==
    /\ t_pc[t] = "l370"
    /\ t_ret' = [t_ret EXCEPT ![t] =
                    IF t_shape[t] \in DOMAIN anchor_cache.dict
                    THEN << "anchors", anchor_cache.dict[t_shape[t]] >>
                    ELSE << KeyError >>]
    /\ release(t)
    /\ Goto(t, "done")
    /\ UNCHANGED << config, keras_model, detect_vars, cache_vars,
                    unmold_vars, useLock, t_shape, t_a >>

InitCallers ==
    /\ BuiltInstance
    /\ NoDetectCall
    /\ FreshCache
    /\ NoUnmoldCall
    /\ useLock \in BOOLEAN
    /\ lock = 0
    /\ t_pc = [t \in Callers |-> "start"]
    /\ t_shape = [t \in Callers |-> << >>]
    /\ t_a = [t \in Callers |-> << >>]
    /\ t_ret = [t \in Callers |-> << >>]

NextCallers ==
    \E t \in Callers :
        \/ \E s \in MoldedShapes : Enter(t, s)
        \/ CheckAttr(t)
        \/ InitCache(t)
        \/ CheckCache(t)
        \/ Generate(t)
        \/ KeepPixelAnchors(t)
        \/ Store(t)
        \/ ReturnAnchors(t)

SpecCallers == InitCallers /\ [][NextCallers]_vars

(***************************************************************************)
(* Properties of unmold_detections (SpecUnmold).                           *)
(***************************************************************************)
\* the call has returned
UnmoldDone == u_ret # << >>
\* its detections argument and its result
UDet == u_args[1].detections
URet == u_ret[1]

\* number of rows before the first row whose class_id is 0
RECURSIVE LeadingNonZero(_, _)
LeadingNonZero(d, k) ==
    IF k > Len(d) \/ d[k][5] = 0 THEN k - 1 ELSE LeadingNonZero(d, k + 1)

\* the box of input row k in pixels of the original image
UBox(k) ==
    translate_box(<< UDet[k][1], UDet[k][2], UDet[k][3], UDet[k][4] >>,
                  u_args[1].original_image_shape, u_args[1].molding.molded,
                  u_args[1].molding.window)

\* y2 - y1 and x2 - x1 of a box
BoxHeight(b) == RatSub(b[3], b[1])
BoxWidth(b) == RatSub(b[4], b[2])
SignedArea(b) == RatMul(BoxHeight(b), BoxWidth(b))

\* the valid input rows whose box has a positive signed area, in order
Survivors ==
    SelectSeq([k \in 1 .. LeadingNonZero(UDet, 1) |-> k],
              LAMBDA k : RatPositive(SignedArea(UBox(k))))

\* C4: when no valid detection remains (the first row is padding, or the
\* zero-area filter removes every valid row), the call returns a record
\* with no boxes, class_ids or scores and a mask stack of shape (H, W, 0)
C4_EmptyResult ==
    (UnmoldDone /\ Survivors = << >>) =>
        /\ URet.boxes = << >>
        /\ URet.class_ids = << >>
        /\ URet.scores = << >>
        /\ URet.masks.layers = << >>
        /\ URet.masks.shape = << u_args[1].original_image_shape[1],
                                 u_args[1].original_image_shape[2], 0 >>

\* every valid row was removed by the zero-area filter, and the call returned
C4_Witness ==
    /\ UnmoldDone
    /\ LeadingNonZero(UDet, 1) = 2
    /\ Survivors = << >>
    /\ URet.masks.shape[3] = 0

\* C5 as stated: every returned box has y2 > y1 and x2 > x1
C5_NonDegenerate ==
    UnmoldDone =>
        \A n \in 1 .. Len(URet.boxes) :
            /\ RatPositive(BoxHeight(URet.boxes[n]))
            /\ RatPositive(BoxWidth(URet.boxes[n]))

\* C5, amended: exactly the valid rows with (y2 - y1) * (x2 - x1) <= 0 are
\* dropped; every returned box has (y2 - y1) * (x2 - x1) > 0 and every valid
\* row with a positive product is returned
C5_PositiveProduct ==
    UnmoldDone =>
        /\ URet.boxes = [n \in 1 .. Len(Survivors) |-> UBox(Survivors[n])]
        /\ \A n \in 1 .. Len(URet.boxes) :
               RatPositive(SignedArea(URet.boxes[n]))

\* a row of zero height (y1 == y2) was dropped and a proper row kept
C5_Witness ==
    /\ UnmoldDone
    /\ \E k \in 1 .. LeadingNonZero(UDet, 1) :
           /\ UBox(k)[1] = UBox(k)[3]
           /\ \A n \in 1 .. Len(URet.boxes) : URet.boxes[n] # UBox(k)
    /\ Len(URet.boxes) >= 1

\* C6: only the rows before the first class_id == 0 row are used (all rows
\* when there is none), and no returned class_id is 0
C6_FirstZeroTruncates ==
    UnmoldDone =>
        /\ valid_count(UDet) = LeadingNonZero(UDet, 1)
        /\ Len(URet.class_ids) <= LeadingNonZero(UDet, 1)
        /\ URet.class_ids = [n \in 1 .. Len(Survivors) |-> UDet[Survivors[n]][5]]
        /\ \A n \in 1 .. Len(URet.class_ids) : URet.class_ids[n] # 0

\* a proper row of non-zero class after a class_id == 0 row was ignored
C6_Witness ==
    /\ UnmoldDone
    /\ \E k \in 2 .. Len(UDet) :
           /\ UDet[k][5] # 0
           /\ RatPositive(SignedArea(UBox(k)))
           /\ k > LeadingNonZero(UDet, 1) + 1
           /\ Len(URet.class_ids) = 1

\* C7: boxes, class_ids, scores and the mask stack have the same number of
\* entries, and the n-th of each comes from the same input row, the mask
\* from that row's class channel; the surviving rows keep their order
C7_RowsAligned ==
    UnmoldDone =>
        /\ Len(URet.boxes) = Len(Survivors)
        /\ Len(URet.class_ids) = Len(Survivors)
        /\ Len(URet.scores) = Len(Survivors)
        /\ Len(URet.masks.layers) = Len(Survivors)
        /\ URet.masks.shape[3] = Len(Survivors)
        /\ \A n \in 1 .. Len(Survivors) :
               LET k == Survivors[n]
               IN  /\ URet.boxes[n] = UBox(k)
                   /\ URet.class_ids[n] = UDet[k][5]
                   /\ URet.scores[n] = UDet[k][6]
                   /\ URet.masks.layers[n].mask = RawMask(1, k, UDet[k][5])
                   /\ URet.masks.layers[n].box = UBox(k)

\* the middle one of three valid rows was filtered out; the two others,
\* of different classes and scores, were returned
C7_Witness ==
    /\ UnmoldDone
    /\ Survivors = << 1, 3 >>
    /\ UDet[1][5] # UDet[3][5]
    /\ UDet[1][6] # UDet[3][6]
    /\ Len(URet.masks.layers) = 2

(***************************************************************************)
(* Properties of construction, detect and get_anchors (Spec).              *)
(***************************************************************************)
\* a detect call is running or has just ended
InDetect ==
    pc \in {"mold_inputs", "validate", "get_anchors", "predict", "unmold",
            "returned"}
        \/ (pc = "raised" /\ keras_model # NoModel)

\* the molded shapes of the images handed to detect
MoldedOf(imgs) == [k \in 1 .. Len(imgs) |-> imgs[k].molding.molded]
ShapesDiffer(imgs) ==
    \E k \in 1 .. Len(imgs) : MoldedOf(imgs)[k] # MoldedOf(imgs)[1]

\* C1: a detect call whose image count differs from BATCH_SIZE fails with
\* BatchSizeMismatch, the predictor is not invoked and nothing is returned;
\* with the right count BatchSizeMismatch is not raised
C1_BatchSizeMismatch ==
    InDetect =>
        /\ Len(images) # config.BATCH_SIZE =>
               /\ pc = "raised"
               /\ error = BatchSizeMismatch
               /\ predict_calls = 0
               /\ returned = << >>
        /\ Len(images) = config.BATCH_SIZE => error # BatchSizeMismatch

\* a call with more images than BATCH_SIZE has failed
C1_Witness ==
    /\ pc = "raised"
    /\ error = BatchSizeMismatch
    /\ Len(images) > config.BATCH_SIZE
    /\ predict_calls = 0

\* C2 as stated: a call with the right count whose molded shapes differ
\* fails with InconsistentImageShape before get_anchors and the predictor
\* run, and returns nothing; the predictor runs at most once in a call, and
\* only when all molded shapes are the same
C2_InconsistentImageShape ==
    (InDetect /\ pc # "mold_inputs" /\ Len(images) = config.BATCH_SIZE) =>
        /\ ShapesDiffer(images) =>
               /\ pc = "raised"
               /\ error = InconsistentImageShape
               /\ anchor_calls = 0
               /\ predict_calls = 0
               /\ returned = << >>
        /\ predict_calls <= 1
        /\ predict_calls = 1 => ~ShapesDiffer(images)

\* C2 without the identity of the error: the call fails before get_anchors
\* and the predictor run
C2_FailsBeforePredictor ==
    (InDetect /\ pc # "mold_inputs" /\ Len(images) = config.BATCH_SIZE) =>
        /\ ShapesDiffer(images) =>
               /\ pc = "raised"
               /\ error = StackShapeError
               /\ anchor_calls = 0
               /\ predict_calls = 0
               /\ returned = << >>
        /\ predict_calls <= 1
        /\ predict_calls = 1 => ~ShapesDiffer(images)
        /\ pc \in {"unmold", "returned"} => predict_calls = 1
        /\ error # InconsistentImageShape

\* the anchors stored for each shape that was ever requested
CacheAsItShouldBe ==
    /\ \A s \in MoldedShapes :
           /\ generated[s] = (IF requested[s] > 0 THEN 1 ELSE 0)
           /\ s \in DOMAIN anchor_cache.dict <=> requested[s] > 0
           /\ s \in DOMAIN anchor_cache.dict =>
                  anchor_cache.dict[s] = norm_anchors(pyramid_anchors(s, 1))
    /\ pc = "anchors_returned" =>
           /\ returned[1].of \in DOMAIN anchor_cache.dict
           /\ returned[1] = anchor_cache.dict[returned[1].of]
    /\ pc \in {"predict", "unmold", "returned"} =>
           \A k \in 1 .. Len(anchors) :
               anchors[k] = anchor_cache.dict[molded_images[1]]

\* no step removes or replaces an entry of the cache
CacheEntriesKept ==
    \A s \in DOMAIN anchor_cache.dict :
        /\ s \in DOMAIN anchor_cache'.dict
        /\ anchor_cache'.dict[s] = anchor_cache.dict[s]

\* C3: after any sequence of get_anchors calls the anchors of each shape
\* requested so far were generated exactly once, every call returns the
\* object stored at the first call for its shape, and no cache entry is
\* ever removed or overwritten
C3_GeneratedOncePerShape == [] CacheAsItShouldBe /\ [][CacheEntriesKept]_vars

\* a second call for a shape returned the anchors the first one stored
C3_Witness ==
    /\ pc = "anchors_returned"
    /\ requested[returned[1].of] = 2
    /\ generated[returned[1].of] = 1
    /\ returned[1] = norm_anchors(pyramid_anchors(returned[1].of, 1))

\* C8: a detect call that returns, returns one record per image, in input
\* order: BATCH_SIZE records, the k-th built from the k-th slice of the
\* predictor's detections and masks and the k-th image's shape, molded
\* shape and window
C8_OneResultPerImage ==
    pc = "returned" =>
        /\ Len(returned[1]) = config.BATCH_SIZE
        /\ Len(returned[1]) = Len(images)
        /\ \A k \in 1 .. Len(images) :
               LET r == unmold_detections(detections[k], mrcnn_mask[k],
                                          images[k].shape,
                                          resize_image(images[k])[1],
                                          resize_image(images[k])[2])
               IN  returned[1][k] =
                       [rois |-> r.boxes, class_ids |-> r.class_ids,
                        scores |-> r.scores, masks |-> r.masks]

\* a batch of two images of different shapes and windows, with different
\* detections, was processed
C8_Witness ==
    /\ pc = "returned"
    /\ Len(returned[1]) = 2
    /\ images[1].shape # images[2].shape
    /\ windows[1] # windows[2]
    /\ detections[1] # detections[2]
    /\ returned[1][1] # returned[1][2]
    /\ Len(returned[1][2].class_ids) = 1

\* C9: construction fails with InvalidConfiguration exactly when the height
\* or the width of the configured image size is not a multiple of 64; then
\* no predictor exists and none is invoked
C9_InvalidConfiguration ==
    /\ pc # "new" =>
           ((config.IMAGE_SHAPE[1] % 64 # 0 \/ config.IMAGE_SHAPE[2] % 64 # 0)
                <=> (pc = "failed" /\ error = InvalidConfiguration))
    /\ pc = "failed" => keras_model = NoModel /\ calls = 0
    /\ keras_model = NoModel => (pc \in {"new", "failed"} /\ predict_calls = 0)
    /\ error = InvalidConfiguration => pc = "failed"

\* construction failed for a width that is not a multiple of 64
C9_Witness ==
    /\ pc = "failed"
    /\ error = InvalidConfiguration
    /\ config.IMAGE_SHAPE[1] % 64 = 0
    /\ config.IMAGE_SHAPE[2] % 64 # 0

(***************************************************************************)
(* Properties of concurrent get_anchors calls (SpecCallers).               *)
(***************************************************************************)
CallerDone(t) == t_pc[t] = "done"

\* C10: when every get_anchors call is a critical section, the anchors of a
\* shape are generated exactly once and all callers asking for the shape
\* get the same object (without mutual exclusion this fails: C10_Witness)
C10_CriticalSection ==
    useLock =>
        /\ \A s \in MoldedShapes : generated[s] <= 1
        /\ \A t \in Callers :
               CallerDone(t) =>
                   /\ generated[t_shape[t]] = 1
                   /\ t_ret[t] = << "anchors",
                                    norm_anchors(pyramid_anchors(t_shape[t], 1)) >>
        /\ \A t1, t2 \in Callers :
               (CallerDone(t1) /\ CallerDone(t2) /\ t_shape[t1] = t_shape[t2])
                   => t_ret[t1] = t_ret[t2]

\* without the mutex: two callers asked for the same uncached shape, its
\* anchors were generated twice and the callers got different objects
C10_Witness ==
    /\ ~useLock
    /\ \E t1, t2 \in Callers :
           /\ CallerDone(t1)
           /\ CallerDone(t2)
           /\ t_shape[t1] = t_shape[t2]
           /\ generated[t_shape[t1]] >= 2
           /\ t_ret[t1][1] = "anchors"
           /\ t_ret[t2][1] = "anchors"
           /\ t_ret[t1] # t_ret[t2]

====
